---- MODULE Spec2Model ----
(***************************************************************************)
(* FutScout UI: the comparison page controller (FutscoutComponent) with    *)
(* the HTTP requests it has in flight, and the radar chart renderer        *)
(* (RadarChartComponent) with the Chart.js instances it owns.              *)
(*                                                                         *)
(* A nullable field (T | null) is a sequence of length at most one:        *)
(* None is null, Some(x) is the value x.                                   *)
(* Heat intensities are counted in units of 1e-6 (Scale units make 1.0),   *)
(* so that the epsilon 1e-6 of computeMaxHeat is the integer 1.            *)
(***************************************************************************)
EXTENDS Integers, Sequences, FiniteSets, TLC

VARIABLES
    \* ---- FutscoutComponent fields (futscout.component.ts:17-34)
    leagues, league, pos, min90s,
    players, playerA, playerB,
    loading, error, compareResult, maxHeat,
    \* ---- HTTP requests subscribed to and not yet answered
    leaguesReq, playersReqs, compareReqs,
    \* ---- history of the run (not read by the program)
    last,        \* the handler that ran last, with its input
    heatCalls,   \* computeMaxHeat invocations made by the last handler
    playersFor,  \* the filters of the request whose answer is in players
    nUser,       \* filter changes and clicks so far
    \* ---- RadarChartComponent (radar-chart.component.ts:35-42)
    labels, aData, bData, chart,
    liveCharts,  \* Chart.js instances created and not destroyed
    nRender

pageVars  == <<leagues, league, pos, min90s, players, playerA, playerB,
               loading, error, compareResult, maxHeat, leaguesReq,
               playersReqs, compareReqs, last, heatCalls, playersFor, nUser>>
radarVars == <<labels, aData, bData, chart, liveCharts, nRender>>
vars      == <<pageVars, radarVars>>

---------------------------------------------------------------------------
\* Bounds of the model
MaxUserEvents == 2
MaxInFlight   == 2
MaxRenders    == 3

\* Program constants
Scale          == 1000000
Epsilon        == 1
DefaultMin90s  == 5

None    == <<>>
Some(x) == <<x>>

PlayersFailedMsg == "Failed to load players. Is the backend running on :8000?"
CompareFailedMsg == "Request failed. Is the backend running on :8000?"

---------------------------------------------------------------------------
\* What the backend may answer
LeagueLists   == { <<>>, <<"L1", "L2">> }
Min90sChoices == { DefaultMin90s, DefaultMin90s + 5 }

Item(n) == [Player |-> n]
PlayerLists ==
    { <<>>, <<Item("X")>>, <<Item("X"), Item("Y")>>, <<Item("X"), Item("X")>>,
      <<Item("Y"), Item("")>> }

MatA  == << <<0, 2 * Scale>>, <<4 * Scale, 0>> >>
MatB  == << <<Scale, 0>>, <<0, 3 * Scale>> >>
MatZ  == << <<0, 0>> >>
HeatPairs    == { <<MatA, MatB>>, <<MatZ, MatZ>> }
ServerErrors == { "Player not found" }

Range(s) == { s[i] : i \in 1..Len(s) }

---------------------------------------------------------------------------
\* Pure helpers of the page controller

\* Array.prototype.flat() on a number[][]
RECURSIVE Flat(_)
Flat(m) == IF m = <<>> THEN <<>> ELSE Head(m) \o Flat(Tail(m))

\* Math.max(...xs, floor)
RECURSIVE MaxWith(_, _)
MaxWith(xs, floor) ==
    IF xs = <<>> THEN floor
    ELSE LET t == MaxWith(Tail(xs), floor)
         IN  IF Head(xs) > t THEN Head(xs) ELSE t

\* the maximum without the epsilon floor
HeatOf_NoFloor(res) ==
    MaxWith(Flat(res.playerA.heatmap.matrix) \o Flat(res.playerB.heatmap.matrix),
            0)

HeatOf(res) ==
    MaxWith(Flat(res.playerA.heatmap.matrix) \o Flat(res.playerB.heatmap.matrix),
            Epsilon)

\* this.players[i]?.Player  (i counted from 0); None when there is no entry
PlayerAt(list, i) == IF i + 1 <= Len(list) THEN Some(list[i + 1].Player) ELSE None

\* x ?? d
Coalesce(x, d) == IF x = None THEN d ELSE x[1]

NoOrigin == [fc |-> FALSE, prev |-> 0]
CurrentRid == IF compareResult = None THEN 0 ELSE compareResult[1].rid

\* Requests are told apart by an id: the least one that no request in
\* flight and no stored result carries
UsedIds ==
    { r.id : r \in playersReqs \cup compareReqs }
        \cup { r.origin.prev : r \in playersReqs \cup compareReqs }
        \cup { CurrentRid }
FreshId == CHOOSE i \in 1..(Cardinality(UsedIds) + 1) :
               i \notin UsedIds /\ \A j \in 1..(i - 1) : j \in UsedIds

PlayersRequest(id, origin) ==
    [id |-> id, league |-> league', pos |-> pos', min90s |-> min90s',
     origin |-> origin]

CompareRequest(id, origin) ==
    [id |-> id, league |-> league', playerA |-> playerA', playerB |-> playerB',
     pos |-> pos', min90s |-> min90s', origin |-> origin]

\* The backend's answer to compare request r: a clean result, or the same
\* shape carrying an error
CompareResponse(r, err, heat) ==
    [error   |-> err,
     league  |-> r.league,
     filters |-> [pos |-> r.pos, min90s |-> r.min90s],
     playerA |-> [name |-> r.playerA, heatmap |-> [matrix |-> heat[1]]],
     playerB |-> [name |-> r.playerB, heatmap |-> [matrix |-> heat[2]]],
     rid     |-> r.id]

\* had: a comparison result was stored when the handler started
Event(k, origin, err, list) ==
    [kind |-> k, origin |-> origin, err |-> err, list |-> list,
     had |-> compareResult # None]

---------------------------------------------------------------------------
Init ==
    /\ leagues = <<>>
    /\ league = "" /\ pos = "ALL" /\ min90s = DefaultMin90s
    /\ players = <<>> /\ playerA = "" /\ playerB = ""
    /\ loading = FALSE /\ error = None
    /\ compareResult = None /\ maxHeat = Scale
    /\ leaguesReq = "none"
    /\ playersReqs = {} /\ compareReqs = {}
    /\ last = Event("new", NoOrigin, "", <<>>)
    /\ heatCalls = 0 /\ playersFor = None /\ nUser = 0
    /\ labels = <<>> /\ aData = Some(<<>>) /\ bData = Some(<<>>)
    /\ chart = None /\ liveCharts = {} /\ nRender = 0

---------------------------------------------------------------------------
\* loadPlayers() without its league guard
loadPlayers_NoGuard(origin) ==
    /\ error' = None
    /\ playersReqs' = playersReqs \cup {PlayersRequest(FreshId, origin)}

\* loadPlayers(): reads the fields as the calling handler leaves them
loadPlayers(origin) ==
    IF league' = ""
    THEN UNCHANGED <<error, playersReqs>>
    ELSE /\ error' = None
         /\ playersReqs' = playersReqs \cup {PlayersRequest(FreshId, origin)}

\* runCompare() without its guard
runCompare_NoGuard(origin) ==
    /\ loading' = TRUE
    /\ error' = None
    /\ compareReqs' = compareReqs \cup {CompareRequest(FreshId, origin)}

\* runCompare(): reads the fields as the calling handler leaves them
runCompare(origin) ==
    IF league' = "" \/ playerA' = "" \/ playerB' = ""
    THEN UNCHANGED <<loading, error, compareReqs>>
    ELSE /\ loading' = TRUE
         /\ error' = None
         /\ compareReqs' = compareReqs \cup {CompareRequest(FreshId, origin)}

\* computeMaxHeat(): reads compareResult as the calling handler leaves it
computeMaxHeat ==
    /\ heatCalls' = 1
    /\ maxHeat' = IF compareResult' = None THEN Scale ELSE HeatOf(compareResult'[1])

---------------------------------------------------------------------------
\* ngOnInit(): subscribes to the two metadata requests
NgOnInit ==
    /\ leaguesReq = "none"
    /\ leaguesReq' = "pending"
    /\ last' = Event("ngOnInit", NoOrigin, "", <<>>)
    /\ UNCHANGED nUser
    /\ heatCalls' = 0
    /\ UNCHANGED <<leagues, league, pos, min90s, players, playerA,
                   playerB, loading, error, compareResult, maxHeat,
                   playersReqs, compareReqs, playersFor>>
    /\ UNCHANGED radarVars

\* getLeagues().subscribe((r) => ...)
LeaguesNext(ls) ==
    /\ leaguesReq = "pending"
    /\ leaguesReq' = "done"
    /\ leagues' = ls
    /\ league' = IF Len(ls) >= 1 THEN ls[1] ELSE ""
    /\ UNCHANGED <<pos, min90s>>
    /\ loadPlayers(NoOrigin)
    /\ last' = Event("leaguesNext", NoOrigin, "", <<>>)
    /\ UNCHANGED nUser
    /\ heatCalls' = 0
    /\ UNCHANGED <<players, playerA, playerB, loading, compareResult,
                   maxHeat, compareReqs, playersFor>>
    /\ UNCHANGED radarVars

\* getLeagues() fails: the subscription has no error continuation
LeaguesError ==
    /\ leaguesReq = "pending"
    /\ leaguesReq' = "failed"
    /\ last' = Event("leaguesError", NoOrigin, "", <<>>)
    /\ UNCHANGED nUser
    /\ heatCalls' = 0
    /\ UNCHANGED <<leagues, league, pos, min90s, players, playerA,
                   playerB, loading, error, compareResult, maxHeat,
                   playersReqs, compareReqs, playersFor>>
    /\ UNCHANGED radarVars

---------------------------------------------------------------------------
\* the next continuation with playerB falling back to '' instead of playerA
PlayersNextHandler_NoFallback(r, list) ==
    /\ players' = list
    /\ playerA' = Coalesce(PlayerAt(list, 0), "")
    /\ playerB' = Coalesce(PlayerAt(list, 1), "")
    /\ UNCHANGED <<league, pos, min90s>>
    /\ IF playerA' # "" /\ playerB' # ""
       THEN runCompare(r.origin)
       ELSE UNCHANGED <<loading, error, compareReqs>>

\* next: (r) => {...} of loadPlayers, for the answer `list` to request r
PlayersNextHandler(r, list) ==
    /\ players' = list
    /\ playerA' = Coalesce(PlayerAt(list, 0), "")
    /\ playerB' = Coalesce(PlayerAt(list, 1), playerA')
    /\ UNCHANGED <<league, pos, min90s>>
    /\ IF playerA' # "" /\ playerB' # ""
       THEN runCompare(r.origin)
       ELSE UNCHANGED <<loading, error, compareReqs>>

PlayersNext(r, list) ==
    /\ r \in playersReqs
    /\ playersReqs' = playersReqs \ {r}
    /\ PlayersNextHandler(r, list)
    /\ playersFor' = Some([league |-> r.league, pos |-> r.pos, min90s |-> r.min90s])
    /\ last' = Event("playersNext", r.origin, "", list)
    /\ UNCHANGED nUser
    /\ heatCalls' = 0
    /\ UNCHANGED <<leagues, compareResult, maxHeat, leaguesReq>>
    /\ UNCHANGED radarVars

\* the error continuation also emptying the list and the selection
PlayersErrorHandler_ClearsList ==
    /\ error' = Some(PlayersFailedMsg)
    /\ players' = <<>> /\ playerA' = "" /\ playerB' = ""
    /\ UNCHANGED <<loading, compareResult, maxHeat, compareReqs, league, pos,
                   min90s>>

\* error: () => {...} of loadPlayers
PlayersErrorHandler ==
    /\ error' = Some(PlayersFailedMsg)
    /\ UNCHANGED <<players, playerA, playerB, loading, compareResult, maxHeat,
                   compareReqs, league, pos, min90s>>

PlayersError(r) ==
    /\ r \in playersReqs
    /\ playersReqs' = playersReqs \ {r}
    /\ PlayersErrorHandler
    /\ last' = Event("playersError", r.origin, "", <<>>)
    /\ UNCHANGED nUser
    /\ heatCalls' = 0
    /\ UNCHANGED <<leagues, leaguesReq, playersFor>>
    /\ UNCHANGED radarVars

---------------------------------------------------------------------------
\* the next continuation keeping the stored result on a server error
CompareNextHandler_KeepsOnError(res) ==
    /\ loading' = FALSE
    /\ IF res.error # ""
       THEN /\ error' = Some(res.error)
            /\ heatCalls' = 0
            /\ UNCHANGED <<compareResult, maxHeat>>
       ELSE /\ compareResult' = Some(res)
            /\ computeMaxHeat
            /\ UNCHANGED error

\* the next continuation keeping a result that is already stored
CompareNextHandler_KeepsStored(res) ==
    /\ loading' = FALSE
    /\ IF res.error # ""
       THEN /\ error' = Some(res.error)
            /\ compareResult' = None
            /\ heatCalls' = 0
            /\ UNCHANGED maxHeat
       ELSE /\ compareResult' = IF compareResult = None THEN Some(res)
                                ELSE compareResult
            /\ computeMaxHeat
            /\ UNCHANGED error

\* next: (res) => {...} of runCompare
CompareNextHandler(res) ==
    /\ loading' = FALSE
    /\ IF res.error # ""
       THEN /\ error' = Some(res.error)
            /\ compareResult' = None
            /\ heatCalls' = 0
            /\ UNCHANGED maxHeat
       ELSE /\ compareResult' = Some(res)
            /\ computeMaxHeat
            /\ UNCHANGED error

CompareNext(r, res) ==
    /\ r \in compareReqs
    /\ compareReqs' = compareReqs \ {r}
    /\ CompareNextHandler(res)
    /\ last' = Event("compareNext", r.origin, res.error, <<>>)
    /\ UNCHANGED nUser
    /\ UNCHANGED <<leagues, league, pos, min90s, players, playerA,
                   playerB, leaguesReq, playersReqs, playersFor>>
    /\ UNCHANGED radarVars

\* error: () => {...} of runCompare
CompareErrorHandler ==
    /\ loading' = FALSE
    /\ error' = Some(CompareFailedMsg)
    /\ UNCHANGED <<compareResult, maxHeat>>

CompareError(r) ==
    /\ r \in compareReqs
    /\ compareReqs' = compareReqs \ {r}
    /\ CompareErrorHandler
    /\ last' = Event("compareError", r.origin, "", <<>>)
    /\ UNCHANGED nUser
    /\ heatCalls' = 0
    /\ UNCHANGED <<leagues, league, pos, min90s, players, playerA,
                   playerB, leaguesReq, playersReqs, playersFor>>
    /\ UNCHANGED radarVars

---------------------------------------------------------------------------
\* The page is shown and takes input; the model stops taking input at
\* its bounds
CanAct ==
    /\ leaguesReq # "none"
    /\ nUser < MaxUserEvents
    /\ Cardinality(playersReqs) + Cardinality(compareReqs) < MaxInFlight

\* onFiltersChanged(): the template's (change) handler; the two-way binding
\* has written the changed filter field (league or min90s here; pos is
\* handled by the same code) before it runs
onFiltersChanged ==
    /\ loadPlayers([fc |-> TRUE, prev |-> CurrentRid])
    /\ nUser' = nUser + 1
    /\ last' = Event("filter", NoOrigin, "", <<>>)
    /\ heatCalls' = 0
    /\ UNCHANGED <<leagues, players, playerA, playerB, loading,
                   compareResult, maxHeat, leaguesReq, compareReqs,
                   playersFor>>
    /\ UNCHANGED radarVars

LeagueChanged(lg) ==
    /\ CanAct
    /\ lg \in Range(leagues) /\ lg # league
    /\ league' = lg
    /\ UNCHANGED <<pos, min90s>>
    /\ onFiltersChanged

Min90sChanged(m) ==
    /\ CanAct
    /\ m \in Min90sChoices /\ m # min90s
    /\ min90s' = m
    /\ UNCHANGED <<league, pos>>
    /\ onFiltersChanged

\* runCompare() called from the page with the fields as they stand
RunCompareClick ==
    /\ CanAct
    /\ UNCHANGED <<league, pos, min90s, playerA, playerB>>
    /\ runCompare(NoOrigin)
    /\ nUser' = nUser + 1
    /\ last' = Event("click", NoOrigin, "", <<>>)
    /\ heatCalls' = 0
    /\ UNCHANGED <<leagues, players, compareResult, maxHeat,
                   leaguesReq, playersReqs, playersFor>>
    /\ UNCHANGED radarVars

---------------------------------------------------------------------------
DeliverLeagues    == \E ls \in LeagueLists : LeaguesNext(ls)
DeliverPlayers    == \E r \in playersReqs, list \in PlayerLists : PlayersNext(r, list)
FailPlayers       == \E r \in playersReqs : PlayersError(r)
DeliverCompare    == \E r \in compareReqs, h \in HeatPairs :
                         CompareNext(r, CompareResponse(r, "", h))
DeliverCompareErr == \E r \in compareReqs, e \in ServerErrors :
                         CompareNext(r, CompareResponse(r, e, <<MatZ, MatZ>>))
FailCompare       == \E r \in compareReqs : CompareError(r)
ChangeLeague      == \E lg \in Range(leagues) : LeagueChanged(lg)
ChangeMin90s      == \E m \in Min90sChoices : Min90sChanged(m)

Next ==
    \/ NgOnInit
    \/ DeliverLeagues
    \/ LeaguesError
    \/ DeliverPlayers
    \/ FailPlayers
    \/ DeliverCompare
    \/ DeliverCompareErr
    \/ FailCompare
    \/ ChangeLeague
    \/ ChangeMin90s
    \/ RunCompareClick

Spec == Init /\ [][Next]_vars

---------------------------------------------------------------------------
\* RadarChartComponent

LabelLists  == { <<>>, <<"Goals">>, <<"Goals", "Assists">> }
\* an input series: undefined (None) or an array of percentiles
SeriesInputs == { None, Some(<<>>), Some(<<50>>), Some(<<50, 60, 70>>) }

\* xs.slice(0, n)
Slice(xs, n) == SubSeq(xs, 1, IF n < Len(xs) THEN n ELSE Len(xs))

\* render() that creates the new chart without destroying the old one
render_NoDestroy ==
    LET n   == Len(labels')
        new == [id |-> nRender + 1, labels |-> labels',
                a |-> Slice(Coalesce(aData', <<>>), n),
                b |-> Slice(Coalesce(bData', <<>>), n)]
    IN  IF n = 0
        THEN /\ chart' = None
             /\ liveCharts' = liveCharts
        ELSE /\ chart' = Some(new)
             /\ liveCharts' = liveCharts \cup {new.id}

\* render(): reads the inputs as ngOnChanges finds them. The canvas is a
\* static view child, present whenever ngOnChanges runs.
render ==
    LET kept == IF chart # None THEN liveCharts \ {chart[1].id} ELSE liveCharts
        n    == Len(labels')
        a    == Slice(Coalesce(aData', <<>>), n)
        b    == Slice(Coalesce(bData', <<>>), n)
        new  == [id |-> nRender + 1, labels |-> labels', a |-> a, b |-> b]
    IN  IF n = 0
        THEN /\ chart' = None
             /\ liveCharts' = kept
        ELSE /\ chart' = Some(new)
             /\ liveCharts' = kept \cup {new.id}

\* ngOnChanges(): Angular has written the changed inputs
NgOnChanges(ls, a, b) ==
    /\ nRender < MaxRenders
    /\ labels' = ls /\ aData' = a /\ bData' = b
    /\ render
    /\ nRender' = nRender + 1
    /\ UNCHANGED pageVars

InputsChange == \E ls \in LabelLists, a \in SeriesInputs, b \in SeriesInputs :
                    NgOnChanges(ls, a, b)

NextRadar == InputsChange

SpecRadar == Init /\ [][NextRadar]_vars

---------------------------------------------------------------------------
\* Runs in which every request succeeds without error and the page issues
\* nothing but filter changes
NextClean ==
    \/ NgOnInit
    \/ DeliverLeagues
    \/ DeliverPlayers
    \/ DeliverCompare
    \/ ChangeLeague
    \/ ChangeMin90s

SpecClean == Init /\ [][NextClean]_vars

---------------------------------------------------------------------------
\* Properties

Quiescent == playersReqs = {} /\ compareReqs = {}
IssuedPlayers == playersReqs' \ playersReqs
IssuedCompare == compareReqs' \ compareReqs
CleanResponse(e) == e.kind = "compareNext" /\ e.err = ""
Filters == [league |-> league, pos |-> pos, min90s |-> min90s]

\* C1: right after the success continuation of a comparison fires with a
\* non-empty error field, error is that very string, compareResult is null
\* and loading is false.
C1_ErrorResponseClears ==
    (last.kind = "compareNext" /\ last.err # "")
        => /\ error = Some(last.err)
           /\ compareResult = None
           /\ loading = FALSE

\* A server error arrived while a result was stored.
C1_Witness ==
    last.kind = "compareNext" /\ last.err # "" /\ last.had /\ compareResult = None

\* C2 as stated: every filter change issues exactly one player-list
\* request, and every success of such a request issues exactly one
\* comparison request.
C2_ExactlyOneEach ==
    [][ /\ last'.kind = "filter" => Cardinality(IssuedPlayers) = 1
        /\ (last'.kind = "playersNext" /\ last'.origin.fc)
               => Cardinality(IssuedCompare) = 1 ]_vars

\* C2 amended: a filter change issues exactly one player-list request when
\* the league is non-empty and none when it is empty, and no comparison
\* request itself; the success of that request issues exactly one
\* comparison request when the selection it makes has non-empty playerA and
\* playerB, and none otherwise; it issues no player-list request.
C2_OneWhenSelectable ==
    [][ /\ last'.kind = "filter"
           => /\ Cardinality(IssuedPlayers) = (IF league' = "" THEN 0 ELSE 1)
              /\ \A r \in IssuedPlayers : r.league = league' /\ r.pos = pos'
                                          /\ r.min90s = min90s'
              /\ IssuedCompare = {}
        /\ (last'.kind = "playersNext" /\ last'.origin.fc)
           => /\ Cardinality(IssuedCompare) =
                    (IF playerA' # "" /\ playerB' # "" THEN 1 ELSE 0)
              /\ IssuedPlayers = {} ]_vars

\* The list request of a filter change succeeded and one comparison
\* request went out for it.
C2_Witness ==
    /\ last.kind = "playersNext" /\ last.origin.fc
    /\ playerA # "" /\ playerB # ""
    /\ Cardinality(compareReqs) = 1

\* C3: every comparison request in flight carries a non-empty league,
\* playerA and playerB and was issued after a player-list response arrived;
\* runCompare called while one of the three is empty issues nothing and
\* changes no field.
C3_CompareNeedsSelection ==
    /\ [](\A r \in compareReqs :
              /\ r.league # "" /\ r.playerA # "" /\ r.playerB # ""
              /\ playersFor # None)
    /\ [][ (last'.kind = "click" /\ (league = "" \/ playerA = "" \/ playerB = ""))
              => UNCHANGED <<leagues, league, pos, min90s, players, playerA,
                             playerB, loading, error, compareResult, maxHeat,
                             playersReqs, compareReqs>> ]_vars

\* runCompare was called with an empty selection while an earlier
\* comparison was still in flight.
C3_Witness ==
    /\ last.kind = "click" /\ playerA = "" /\ league # ""
    /\ compareReqs # {}

\* C4: the error continuation of a player-list request sets error to the
\* connectivity message, leaves players, playerA, playerB, compareResult,
\* maxHeat and loading as they were and issues no comparison request.
C4_ListFailureFrame ==
    [][ last'.kind = "playersError"
           => /\ error' = Some(PlayersFailedMsg)
              /\ UNCHANGED <<players, playerA, playerB, compareResult,
                             maxHeat, loading>>
              /\ IssuedCompare = {} ]_vars

\* A list request failed with a list and a result stored.
C4_Witness ==
    last.kind = "playersError" /\ players # <<>> /\ compareResult # None
        /\ error = Some(PlayersFailedMsg)

\* C5 as stated: after a successful list response players is the response;
\* two or more entries select the first name and a different name, one
\* entry selects it twice, none selects nothing and issues no comparison.
C5_FirstTwoDistinct ==
    [][ last'.kind = "playersNext"
           => LET list == last'.list IN
              /\ players' = list
              /\ Len(list) >= 2 => /\ playerA' = list[1].Player
                                   /\ playerB' # playerA'
              /\ Len(list) = 1 => /\ playerA' = list[1].Player
                                  /\ playerB' = list[1].Player
              /\ Len(list) = 0 => /\ playerA' = "" /\ playerB' = ""
                                  /\ IssuedCompare = {} ]_vars

\* C5 amended: two or more entries select the names of the first and of the
\* second entry, which are equal when the two entries carry the same name.
C5_FirstTwoEntries ==
    [][ last'.kind = "playersNext"
           => LET list == last'.list IN
              /\ players' = list
              /\ Len(list) >= 2 => /\ playerA' = list[1].Player
                                   /\ playerB' = list[2].Player
              /\ Len(list) = 1 => /\ playerA' = list[1].Player
                                  /\ playerB' = list[1].Player
              /\ Len(list) = 0 => /\ playerA' = "" /\ playerB' = ""
                                  /\ IssuedCompare = {} ]_vars

\* A list of two entries with one name selected that name twice.
C5_Witness ==
    /\ last.kind = "playersNext" /\ Len(players) = 2
    /\ playerA = playerB /\ playerA # ""

\* The handler that ran last ended the work of a filter change: the list
\* request failed, or selected no players, or the comparison it triggered
\* completed with either continuation.
ChainEnded ==
    /\ last.origin.fc
    /\ \/ last.kind \in {"playersError", "compareNext", "compareError"}
       \/ last.kind = "playersNext" /\ (playerA = "" \/ playerB = "")

\* C6 as stated: when every request a filter change triggered has
\* completed, with either continuation, compareResult is not the result
\* that was stored when the filter changed.
C6_NeverSurvives ==
    ChainEnded => (compareResult = None \/ CurrentRid # last.origin.prev)

\* C6 amended: when the list request of a filter change has succeeded and
\* the comparison request it triggered has completed through its success
\* continuation, compareResult is not the result that was stored when the
\* filter changed; and a result that gets stored is always the answer to a
\* request that was still outstanding, never an earlier one.
C6_ReplacedOnSuccess ==
    /\ []((last.kind = "compareNext" /\ last.origin.fc)
              => (compareResult = None \/ CurrentRid # last.origin.prev))
    /\ [][ (compareResult' # compareResult /\ compareResult' # None)
              => \E r \in compareReqs \ compareReqs' :
                     /\ compareResult'[1].rid = r.id
                     /\ compareResult'[1].playerA.name = r.playerA
                     /\ compareResult'[1].playerB.name = r.playerB ]_vars

\* A filter change made with a result stored ended with a fresh result.
C6_Witness ==
    /\ last.kind = "compareNext" /\ last.origin.fc /\ last.origin.prev # 0
    /\ last.err = "" /\ compareResult # None

\* The largest cell of both matrices of a stored result, floored at epsilon
IsNormalizationRange(m, res) ==
    LET cells == Range(Flat(res.playerA.heatmap.matrix))
                     \cup Range(Flat(res.playerB.heatmap.matrix))
    IN  /\ m >= Epsilon
        /\ \A c \in cells : m >= c
        /\ m = Epsilon \/ m \in cells

\* C7: whenever a result is stored maxHeat is the largest cell of its two
\* heatmap matrices floored at 1e-6 (4 for [[0,2],[4,0]] and [[1,0],[0,3]]);
\* computeMaxHeat runs exactly once in the handler of an error-free
\* comparison response and in no other handler, and no other handler
\* changes maxHeat.
C7_MaxHeatOfStoredResult ==
    /\ [](compareResult # None
              => /\ IsNormalizationRange(maxHeat, compareResult[1])
                 /\ (/\ compareResult[1].playerA.heatmap.matrix = MatA
                     /\ compareResult[1].playerB.heatmap.matrix = MatB)
                        => maxHeat = 4 * Scale)
    /\ [][ /\ heatCalls' = (IF CleanResponse(last') THEN 1 ELSE 0)
           /\ maxHeat' # maxHeat => CleanResponse(last') ]_vars

\* The result with the two example matrices is stored, replacing one whose
\* range was the epsilon.
C7_Witness ==
    /\ CleanResponse(last) /\ last.had /\ compareResult # None
    /\ compareResult[1].playerA.heatmap.matrix = MatA
    /\ maxHeat = 4 * Scale

\* C8: at most one chart instance is alive and it is the one the component
\* holds; after a render with an empty label list there is none; a created
\* chart carries the labels and series of at most labels.length values,
\* each a prefix of the input series.
C8_OneChartTruncated ==
    /\ Cardinality(liveCharts) <= 1
    /\ liveCharts = { c.id : c \in Range(chart) }
    /\ (nRender > 0 /\ labels = <<>>) => (chart = None /\ liveCharts = {})
    /\ (nRender > 0 /\ labels # <<>>) => chart # None
    /\ \A c \in Range(chart) :
           /\ c.labels = labels
           /\ Len(c.a) <= Len(labels) /\ Len(c.b) <= Len(labels)
           /\ \A i \in 1..Len(c.a) : c.a[i] = Coalesce(aData, <<>>)[i]
           /\ \A i \in 1..Len(c.b) : c.b[i] = Coalesce(bData, <<>>)[i]

\* A later render replaced a chart and cut a longer series to the labels.
C8_Witness ==
    /\ nRender >= 2 /\ chart # None
    /\ Len(Coalesce(aData, <<>>)) > Len(labels)
    /\ Len(chart[1].a) = Len(labels)

\* C9 as stated: loading is true exactly while a comparison request is
\* outstanding.
C9_LoadingTracksRequests ==
    loading = (compareReqs # {})

\* C10 as stated: in a quiescent state after two filter changes, with a
\* league and two players selected and all requests having succeeded
\* without error, players is the answer to the list request made with the
\* current filters and compareResult is the answer to a comparison request
\* made with the current filters and players.
C10_NoStaleData ==
    (Quiescent /\ nUser >= 2 /\ league # "" /\ playerA # "" /\ playerB # "")
        => /\ playersFor = Some(Filters)
           /\ compareResult # None
           /\ compareResult[1].league = league
           /\ compareResult[1].filters = [pos |-> pos, min90s |-> min90s]
           /\ compareResult[1].playerA.name = playerA
           /\ compareResult[1].playerB.name = playerB

====
